---- MODULE Spec2Model ----
(***************************************************************************)
(* Model of git_submodule_prep/prep.py.                                    *)
(*                                                                         *)
(* Three specifications share this module:                                   *)
(*   SpecTree  - repository discovery and configuration resolution         *)
(*               (find_dir_containing, get_submodule_dirs,                 *)
(*               get_unique_subprep_dirs, get_prep_configs);               *)
(*   SpecSync  - the operations on the resolved submodules (config_module, *)
(*               fetch_repo, repo_needs_merge, merge_repo);                *)
(*   SpecMain  - the batch actions of real_main over the resolved mapping. *)
(***************************************************************************)
EXTENDS Naturals, Sequences, FiniteSets, TLC

VARIABLES
    \* ---- discovery / resolution (SpecTree)
    cwd,        \* the process's current directory (absolute, a sequence of names)
    path,       \* args.path: the start paths as the operator spelled them
    recursive,  \* args.recursive
    prepFile,   \* per repository: does .gitmodules-prep exist, and its sections
    tpc,        \* position in real_main: "start", "walked", "resolved", "failed"
    prep_dirs,  \* result of get_unique_subprep_dirs
    prep_cfgs,  \* result of get_prep_configs: insertion-ordered <<key, cfg>> pairs
    terr,       \* the exception that ended the run ("" if none)
    \* ---- the submodule repositories (SpecSync)
    git,        \* per submodule repository: remotes, branches, refs, HEAD, work tree
    parents,    \* the commit graph: parents[c] is the parent tuple of commit c
    configured, \* the repositories on which a config_module call has completed
    last        \* what the last operation did and returned

treeVars == <<cwd, path, recursive, prepFile, tpc, prep_dirs, prep_cfgs, terr>>
syncVars == <<git, parents, configured, last>>

vars == <<treeVars, syncVars>>

-----------------------------------------------------------------------------
(* Bounds *)

\* most start paths given on the command line
MaxPaths == 2

\* most commits in the commit graph (merge_repo stops creating commits there)
MaxCommits == 6

-----------------------------------------------------------------------------
(* Paths.  A (normalised) path.Path is a record: abs says whether it starts *)
(* at "/", up counts leading ".." components (relative paths only), segs    *)
(* are the remaining names.  "." is [abs |-> FALSE, up |-> 0, segs |-> <<>>]*)

Rel(u, s) == [abs |-> FALSE, up |-> u, segs |-> s]
AbsP(s)   == [abs |-> TRUE, up |-> 0, segs |-> s]

\* the value standing for "find_dir_containing raised ValueError"
NoPath == [abs |-> FALSE, up |-> 0, segs |-> <<"<ValueError>">>]

DropLast(s, n) == IF n >= Len(s) THEN <<>> ELSE SubSeq(s, 1, Len(s) - n)

\* Path.parent: (self / "..").normpath()
parent(p) ==
    IF p.segs # <<>> THEN [p EXCEPT !.segs = DropLast(p.segs, 1)]
    ELSE IF p.abs THEN p
    ELSE [p EXCEPT !.up = p.up + 1]

\* (p / rel).normpath() for a relative path rel without ".." components
joinNorm(p, rel) == [p EXCEPT !.segs = p.segs \o rel]

\* Path.abspath(): the directory the spelling denotes, given the current directory
abspath(c, p) == IF p.abs THEN p.segs ELSE DropLast(c, p.up) \o p.segs

\* len(d.parts()): the head component ("/", "" or the first "..") and the rest
nparts(p) ==
    IF p.abs \/ p.up = 0 THEN 1 + Len(p.segs)
    ELSE p.up + Len(p.segs)

-----------------------------------------------------------------------------
(* The directory tree the program runs on: repository R at /w/R with the    *)
(* submodules sub (S) and x/lib (U); S has the submodule t (T).             *)

R == <<"w", "R">>
S == <<"w", "R", "sub">>
T == <<"w", "R", "sub", "t">>
U == <<"w", "R", "x", "lib">>

Dirs == {<<>>, <<"w">>, R, <<"w", "R", "x">>, S, T, U}

\* directories holding a ".git" entry
GitDirs == {R, S, T, U}

\* repo.submodules of the repository at d: the declared submodule paths, in order
Submodules(d) ==
    IF d = R THEN << <<"sub">>, <<"x", "lib">> >>
    ELSE IF d = S THEN << <<"t">> >>
    ELSE <<>>

\* submod.branch_path without "refs/heads/": the branch a declared submodule tracks
SubmodBranch(d, rel) ==
    IF rel = <<"sub">> THEN "main"
    ELSE IF rel = <<"t">> THEN "dev"
    ELSE "master"

\* a section name of a prep file that no repository declares as a submodule
Vendor == <<"vendor", "lib">>

\* (dir / filename).exists()
exists(c, p, filename) ==
    IF filename = ".git" THEN abspath(c, p) \in GitDirs
    ELSE abspath(c, p) \in GitDirs /\ prepFile[abspath(c, p)].exists

isdir(c, p) ==
    /\ abspath(c, p) \in Dirs
    /\ (~p.abs => p.up <= Len(c))

-----------------------------------------------------------------------------
(* Discovery *)

RECURSIVE find_dir_containing(_, _, _)
find_dir_containing(c, cur_dir, filename) ==
    IF exists(c, cur_dir, filename) THEN cur_dir
    ELSE IF abspath(c, cur_dir) = <<>> THEN NoPath
    ELSE find_dir_containing(c, parent(cur_dir), filename)

find_git_root(c, dir_path) == find_dir_containing(c, dir_path, ".git")

RECURSIVE get_submodule_dirs(_, _, _)
RECURSIVE SubmodulesFrom(_, _, _, _)
\* the loop body of get_submodule_dirs from the i-th declared submodule on
SubmodulesFrom(c, repo_path, recurse, i) ==
    LET subs == Submodules(abspath(c, repo_path))
    IN  IF i > Len(subs) THEN <<>>
        ELSE LET submod_dir == joinNorm(repo_path, subs[i])
             IN  <<submod_dir>>
                 \o (IF recurse THEN get_submodule_dirs(c, submod_dir, TRUE) ELSE <<>>)
                 \o SubmodulesFrom(c, repo_path, recurse, i + 1)

get_submodule_dirs(c, repo_path, recurse) == SubmodulesFrom(c, repo_path, recurse, 1)

get_subprep_dirs(c, repo_path, recurse) ==
    LET submod_dirs == IF recurse THEN get_submodule_dirs(c, repo_path, TRUE) ELSE <<>>
    IN  SelectSeq(<<repo_path>> \o submod_dirs,
                  LAMBDA d : exists(c, d, ".gitmodules-prep"))

Range(s) == {s[i] : i \in DOMAIN s}

\* faulty variant: the sort without reverse=True (shallowest first)
RECURSIVE sortedAscending(_)
sortedAscending(set) ==
    IF set = {} THEN {<<>>}
    ELSE LET shallowest == {d \in set : \A e \in set : nparts(d) <= nparts(e)}
         IN  UNION {{<<d>> \o rest : rest \in sortedAscending(set \ {d})} : d \in shallowest}

\* sorted(set, key=len(parts), reverse=True): every order a stable sort of some
\* iteration order of the set can give (ties between equal depths are free)
RECURSIVE sortedByParts(_)
sortedByParts(set) ==
    IF set = {} THEN {<<>>}
    ELSE LET deepest == {d \in set : \A e \in set : nparts(e) <= nparts(d)}
         IN  UNION {{<<d>> \o rest : rest \in sortedByParts(set \ {d})} : d \in deepest}

\* the set built by the loop of get_unique_subprep_dirs
subprepSet(c, child_paths, recurse) ==
    UNION {Range(get_subprep_dirs(c, find_git_root(c, child_paths[i]), recurse))
             : i \in DOMAIN child_paths}

\* does find_git_root raise for some start path
walkRaises(c, child_paths) ==
    \E i \in DOMAIN child_paths : find_git_root(c, child_paths[i]) = NoPath

get_unique_subprep_dirs(c, child_paths, recurse) ==
    sortedByParts(subprepSet(c, child_paths, recurse))

-----------------------------------------------------------------------------
(* Resolution *)

\* parse_prep: section name -> options; the options of a section are fixed here
parse_prep(d) == prepFile[d].sections

UpstreamUrl(rel) == IF rel = <<"sub">> THEN "https://example.org/sub.git"
                    ELSE "https://example.org/other.git"
UpstreamBranch(rel) == IF rel = <<"sub">> THEN "upstream-main" ELSE "upstream-dev"

\* dict assignment cfgs[key] = cfg on an insertion-ordered dict
dictPut(cfgs, key, cfg) ==
    IF \E i \in DOMAIN cfgs : cfgs[i][1] = key
    THEN [i \in DOMAIN cfgs |-> IF cfgs[i][1] = key THEN <<key, cfg>> ELSE cfgs[i]]
    ELSE Append(cfgs, <<key, cfg>>)

\* faulty variant: submod_branches kept across the prep roots instead of rebuilt per root
declaredAnywhere(d) == UNION {Range(Submodules(e)) : e \in GitDirs}

\* the keys of submod_branches: the submodule paths the repository at d declares
declared(d) == Range(Submodules(d))

\* the sections of a prep file in file order
sectionSeq(d) ==
    SelectSeq(<< <<"sub">>, <<"x", "lib">>, <<"t">>, Vendor >>,
              LAMBDA s : s \in parse_prep(d))

RECURSIVE prepConfigsFrom(_, _, _, _, _)
\* get_prep_configs from section j of prep_dirs[i] on; acc is [err, cfgs]
prepConfigsFrom(c, dirs, i, j, acc) ==
    IF i > Len(dirs) THEN acc
    ELSE LET d    == abspath(c, dirs[i])
             secs == sectionSeq(d)
         IN  IF j > Len(secs) THEN prepConfigsFrom(c, dirs, i + 1, 1, acc)
             ELSE IF secs[j] \notin declared(d)
                  THEN [err |-> "KeyError", cfgs |-> <<>>]
                  ELSE prepConfigsFrom(c, dirs, i, j + 1,
                         [err |-> "",
                          cfgs |-> dictPut(acc.cfgs, joinNorm(dirs[i], secs[j]),
                                     [path |-> secs[j],
                                      branch |-> SubmodBranch(d, secs[j]),
                                      upstream_url |-> UpstreamUrl(secs[j]),
                                      upstream_branch |-> UpstreamBranch(secs[j])])])

get_prep_configs(c, dirs) == prepConfigsFrom(c, dirs, 1, 1, [err |-> "", cfgs |-> <<>>])

-----------------------------------------------------------------------------
(* SpecTree: one run of real_main up to the resolved mapping *)

\* the spellings an operator may give for a start path
Spellings ==
    {Rel(0, <<>>), Rel(1, <<>>), Rel(0, <<"sub">>), Rel(1, <<"R">>),
     AbsP(R), AbsP(S), AbsP(<<"w", "R", "x">>), AbsP(<<"w">>)}

Cwds == {R, <<"w", "R", "x">>, S}

PathLists == UNION {[1..n -> Spellings] : n \in 1..MaxPaths}

NoFile == [exists |-> FALSE, sections |-> {}]
File(secs) == [exists |-> TRUE, sections |-> secs]

PrepFiles ==
    {f \in [GitDirs -> {NoFile} \cup {File(s) : s \in SUBSET {<<"sub">>, <<"t">>, Vendor}}] :
        /\ f[R].sections \subseteq {<<"sub">>, <<"t">>, Vendor}
        /\ f[S].sections \subseteq {<<"t">>, Vendor}
        /\ f[T].sections = {}
        /\ f[U].sections = {}}

InitTree ==
    /\ cwd \in Cwds
    /\ path \in PathLists
    /\ \A i \in DOMAIN path : isdir(cwd, path[i])
    /\ recursive \in BOOLEAN
    /\ prepFile \in PrepFiles
    /\ tpc = "start"
    /\ prep_dirs = <<>>
    /\ prep_cfgs = <<>>
    /\ terr = ""
    /\ git = <<>>
    /\ parents = <<>>
    /\ configured = {}
    /\ last = <<>>

\* real_main line 224: prep_dirs = get_unique_subprep_dirs(args.path, recurse)
FindPrepRoots ==
    /\ tpc = "start"
    /\ IF walkRaises(cwd, path)
       THEN /\ tpc' = "failed"
            /\ terr' = "ValueError"
            /\ prep_dirs' = prep_dirs
       ELSE /\ tpc' = "walked"
            /\ terr' = terr
            /\ prep_dirs' \in get_unique_subprep_dirs(cwd, path, recursive)
    /\ UNCHANGED <<cwd, path, recursive, prepFile, prep_cfgs, syncVars>>

\* real_main line 225: prep_cfgs = get_prep_configs(prep_dirs)
Resolve ==
    /\ tpc = "walked"
    /\ LET res == get_prep_configs(cwd, prep_dirs)
       IN  IF res.err # ""
           THEN /\ tpc' = "failed"
                /\ terr' = res.err
                /\ prep_cfgs' = prep_cfgs
           ELSE /\ tpc' = "resolved"
                /\ terr' = terr
                /\ prep_cfgs' = res.cfgs
    /\ UNCHANGED <<cwd, path, recursive, prepFile, prep_dirs, syncVars>>

NextTree == FindPrepRoots \/ Resolve

SpecTree == InitTree /\ [][NextTree]_vars

-----------------------------------------------------------------------------
(* Properties of discovery and resolution (checked under SpecTree) *)

walkDone == tpc \in {"walked", "resolved"} \/ (tpc = "failed" /\ terr = "KeyError")

\* the repository a returned entry denotes
phys(i) == abspath(cwd, prep_dirs[i])

\* A is a declared submodule of B
submoduleOf(A, B) == \E i \in DOMAIN Submodules(B) : B \o Submodules(B)[i] = A

\* A is a submodule of B at any depth (the tree nests two levels)
nestedIn(A, B) ==
    submoduleOf(A, B) \/ \E M \in GitDirs : submoduleOf(A, M) /\ submoduleOf(M, B)

\* C3: two different start paths inside the same prep-carrying repository R, in
\* any spelling, make findPrepRoots list R at most once.
C3_RootListedOnce ==
    (/\ walkDone
     /\ Len(path) = 2
     /\ path[1] # path[2]
     /\ abspath(cwd, find_git_root(cwd, path[1])) = abspath(cwd, find_git_root(cwd, path[2])))
    => \A d \in GitDirs : Cardinality({i \in DOMAIN prep_dirs : phys(i) = d}) <= 1

\* C4: in the recursive listing every prep-carrying repository nested (as a
\* submodule at any depth) in a listed repository is listed before it.
C4_DeepestFirst ==
    (walkDone /\ recursive)
    => \A j \in DOMAIN prep_dirs : \A A \in GitDirs :
          (prepFile[A].exists /\ nestedIn(A, phys(j)))
          => \E i \in 1..(j - 1) : phys(i) = A

\* R, S and T carry prep configuration and the walk from R lists T, S, R
C4_Witness ==
    /\ tpc = "walked"
    /\ recursive
    /\ path = <<AbsP(R)>>
    /\ ~prepFile[U].exists
    /\ prep_dirs = <<AbsP(T), AbsP(S), AbsP(R)>>

\* some listed prep root has a section that is no submodule it declares
sectionMismatch ==
    \E i \in DOMAIN prep_dirs :
        \E s \in prepFile[phys(i)].sections :
            \A k \in DOMAIN Submodules(phys(i)) : Submodules(phys(i))[k] # s

\* C7: resolve fails, returning no mapping, exactly when some prep root has a
\* section naming no submodule declared by that same repository.
C7_MismatchFails ==
    (tpc = "resolved" \/ (tpc = "failed" /\ terr # "ValueError"))
    => /\ sectionMismatch <=> (tpc = "failed" /\ terr = "KeyError")
       /\ tpc = "failed" => prep_cfgs = <<>>

\* R's prep file names t, which only S declares: resolve fails
C7_Witness ==
    /\ tpc = "failed"
    /\ terr = "KeyError"
    /\ \E i \in DOMAIN prep_dirs : phys(i) = R /\ <<"t">> \in prepFile[R].sections

-----------------------------------------------------------------------------
(* The submodule repositories.  A repository is a record:                   *)
(*   upstream  url of the remote "upstream" ("" if there is no such remote; *)
(*             the remote "origin" always exists)                           *)
(*   heads     local branch -> commit (0: no such branch)                   *)
(*   track     local branch -> the remote-tracking ref it tracks            *)
(*   refs      remote-tracking ref <<remote, branch>> -> commit (0: none)   *)
(*   active    the checked-out branch ("" for a detached HEAD)              *)
(*   wt        work tree and index: "clean", "dirty" or "conflict"          *)

Branches == {"main", "dev", "upstream-main", "upstream-dev"}
RefNames == {<<"origin", "main">>, <<"origin", "dev">>,
             <<"upstream", "upstream-main">>, <<"upstream", "upstream-dev">>}
NoRef == <<"", "">>

\* the commits that exist before the program runs: 1 is the common root,
\* 2 the fork's work on it, 3 and 4 the upstream project's work
BaseCommits == << <<>>, <<1>>, <<1>>, <<3>> >>

\* what the servers hold: the tip of the fork's branch and of the upstream branch
OriginTip == 2
UpstreamTip == 4

\* repo.is_ancestor(a, b): a is reachable from b (git merge-base --is-ancestor)
RECURSIVE is_ancestor(_, _, _)
is_ancestor(par, a, b) ==
    \/ a = b
    \/ \E i \in DOMAIN par[b] : is_ancestor(par, a, par[b][i])

\* the optional prep_cfg argument of merge_repo and push_repo
None == [none |-> TRUE,
         cfg |-> [path |-> <<>>, branch |-> "", upstream_url |-> "", upstream_branch |-> ""]]
Some(cfg) == [none |-> FALSE, cfg |-> cfg]

cfgResult(g, err) == [g |-> g, err |-> err]

\* faulty variant: the branch is created whether or not it exists
neverHasBranch(g, name) == FALSE

\* name in repo.branches
hasBranch(g, name) == g.heads[name] # 0

\* config_module(mod_path, prep_cfg) on the repository g
config_module(g, prep_cfg) ==
    LET branch_name == prep_cfg.branch
        upstream_branch_name == prep_cfg.upstream_branch
        \* create_remote is "git remote add": it fetches nothing
        g1 == IF g.upstream = "" THEN [g EXCEPT !.upstream = prep_cfg.upstream_url] ELSE g
        my_remote_branch == <<"origin", branch_name>>
        g2 == IF ~hasBranch(g1, branch_name)
              THEN [g1 EXCEPT !.heads[branch_name] = g1.refs[my_remote_branch],
                              !.track[branch_name] = my_remote_branch]
              ELSE g1
        upstream_remote_branch == <<"upstream", upstream_branch_name>>
        g3 == IF ~hasBranch(g2, upstream_branch_name)
              THEN [g2 EXCEPT !.heads[upstream_branch_name] = g2.refs[upstream_remote_branch],
                              !.track[upstream_branch_name] = upstream_remote_branch]
              ELSE g2
    IN  IF ~hasBranch(g1, branch_name) /\ g1.refs[my_remote_branch] = 0
        THEN cfgResult(g1, "IndexError")
        ELSE IF ~hasBranch(g2, upstream_branch_name) /\ g2.refs[upstream_remote_branch] = 0
        THEN cfgResult(g2, "IndexError")
        ELSE cfgResult(g3, "")

\* fetch_repo(repo_dir): every remote's tracking refs take the server's tips
fetch_repo(g, prep_cfg) ==
    LET g1 == [g EXCEPT !.refs[<<"origin", prep_cfg.branch>>] = OriginTip]
    IN  IF g.upstream = "" THEN g1
        ELSE [g1 EXCEPT !.refs[<<"upstream", prep_cfg.upstream_branch>>] = UpstreamTip]

\* is_dirty(repo_path); vcFails: the version-control call raises
is_dirty(g, vcFails) ==
    IF vcFails THEN [err |-> "GitCommandError", val |-> FALSE]
    ELSE [err |-> "", val |-> g.wt # "clean"]

\* repo_needs_merge(repo_path, branch, upstream_branch)
repo_needs_merge(g, par, branch, upstream_branch, vcFails) ==
    IF g.heads[branch] = 0 \/ g.heads[upstream_branch] = 0
    THEN [err |-> "IndexError", val |-> FALSE]
    ELSE IF vcFails THEN [err |-> "GitCommandError", val |-> FALSE]
    ELSE [err |-> "", val |-> ~is_ancestor(par, g.heads[upstream_branch], g.heads[branch])]

\* what "git merge --no-commit" leaves as the tip of the checked-out branch
\* when it ends without conflicts: a fast-forward moves the branch
tipAfterMerge(par, mine, theirs) ==
    IF is_ancestor(par, mine, theirs) THEN theirs ELSE mine

\* faulty variant: the unmerged blobs are not looked at
ignoreUnmerged(o) == FALSE

\* len(repo.index.unmerged_blobs()) is non-zero
hasUnmerged(o) == o.unmerged

\* faulty variant: the merge commit gets the local tip as its only parent
onlyMineAsParent(mine, theirs) == <<mine>>

\* parent_commits of the merge commit
parent_commits(mine, theirs) == <<mine, theirs>>

mergeResult(g, par, err, ret, b, ub) ==
    [g |-> g, par |-> par, err |-> err, ret |-> ret,
     branch_name |-> b, upstream_branch_name |-> ub]

\* merge_repo(repo_dir, prep_cfg).  o is what the version-control binding does:
\* o.co: the checkout succeeds; o.raised: the merge command raises
\* GitCommandError; o.unmerged: the index holds unmerged blobs afterwards
merge_repo(g, par, prep_cfg, o) ==
    IF prep_cfg.none
    THEN \* repo.active_branch raises TypeError on a detached HEAD, and the
         \* remote_name of a local branch raises ValueError
         IF g.active = "" THEN mergeResult(g, par, "TypeError", FALSE, "", "")
         ELSE mergeResult(g, par, "ValueError", FALSE, g.active, "")
    ELSE LET branch_name == prep_cfg.cfg.branch
             upstream_branch_name == prep_cfg.cfg.upstream_branch
             g1 == [g EXCEPT !.active = branch_name]
             g2 == [g1 EXCEPT !.wt = IF o.unmerged THEN "conflict" ELSE g1.wt]
             tip == tipAfterMerge(par, g.heads[branch_name], g.heads[upstream_branch_name])
             new == Len(par) + 1
         IN  IF g.heads[branch_name] = 0 \/ g.heads[upstream_branch_name] = 0
             THEN mergeResult(g, par, "IndexError", FALSE, branch_name, upstream_branch_name)
             ELSE IF ~o.co
             THEN mergeResult(g, par, "GitCommandError", FALSE,
                              branch_name, upstream_branch_name)
             ELSE IF o.raised
             THEN \* print("\n" + e): str + exception
                  mergeResult(g2, par, "TypeError", FALSE, branch_name, upstream_branch_name)
             ELSE IF hasUnmerged(o)
             THEN mergeResult(g2, par, "", FALSE, branch_name, upstream_branch_name)
             ELSE mergeResult([g1 EXCEPT !.heads[branch_name] = new],
                              Append(par, parent_commits(tip, g.heads[upstream_branch_name])),
                              "", TRUE, branch_name, upstream_branch_name)

\* what the binding can do on g: a clean work tree checks out, an index with
\* unmerged entries does not, local changes may or may not be in the way
Outcomes(g) ==
    {o \in [co : BOOLEAN, raised : BOOLEAN, unmerged : BOOLEAN] :
        /\ (g.wt = "clean" => o.co)
        /\ (g.wt = "conflict" => ~o.co)
        /\ (~o.co => ~o.raised /\ ~o.unmerged)}

-----------------------------------------------------------------------------
(* The loops of real_main over the resolved mapping prep_cfgs *)

Key(i) == abspath(cwd, prep_cfgs[i][1])
Cfg(i) == prep_cfgs[i][2]
Keys == {Key(i) : i \in DOMAIN prep_cfgs}
CfgOf(k) == Cfg(CHOOSE i \in DOMAIN prep_cfgs : Key(i) = k)

\* real_main lines 227-228 from the i-th record on: config_module on every
\* record in mapping order; an exception ends the run, what was done stays.
\* prep_cfg is the loop variable as the loop leaves it.
RECURSIVE configAll(_, _)
configAll(gs, i) ==
    IF i > Len(prep_cfgs)
    THEN [git |-> gs, err |-> "", done |-> {},
          prep_cfg |-> IF prep_cfgs = <<>> THEN None.cfg ELSE Cfg(Len(prep_cfgs))]
    ELSE LET r   == config_module(gs[Key(i)], Cfg(i))
             gs1 == [gs EXCEPT ![Key(i)] = r.g]
         IN  IF r.err # ""
             THEN [git |-> gs1, err |-> r.err, done |-> {}, prep_cfg |-> Cfg(i)]
             ELSE LET rest == configAll(gs1, i + 1)
                  IN  [rest EXCEPT !.done = @ \cup {Key(i)}]

\* str(repo_dir)
pathStr(k) ==
    IF k = R THEN "/w/R" ELSE IF k = S THEN "/w/R/sub"
    ELSE IF k = T THEN "/w/R/sub/t" ELSE "/w/R/x/lib"

\* real_main line 269: prep_cfg.get(needs_merge_dir, None), a lookup among the
\* option names of the one record the configure loop left in prep_cfg (a
\* directory is no option name, so the first branch is never taken)
mergeArg(prep_cfg, needs_merge_dir) ==
    IF pathStr(needs_merge_dir) \in DOMAIN prep_cfg THEN Some(prep_cfg) ELSE None

\* get_repos_needing_merge(prep_cfgs) from the i-th record on; failing: the
\* repositories on which the version-control query raises
RECURSIVE get_repos_needing_merge(_, _, _, _)
get_repos_needing_merge(gs, par, failing, i) ==
    IF i > Len(prep_cfgs) THEN [err |-> "", needs_merging |-> <<>>, queried |-> <<>>]
    ELSE LET r == repo_needs_merge(gs[Key(i)], par, Cfg(i).branch,
                                   Cfg(i).upstream_branch, Key(i) \in failing)
         IN  IF r.err # ""
             THEN [err |-> r.err, needs_merging |-> <<>>, queried |-> <<Key(i)>>]
             ELSE LET rest == get_repos_needing_merge(gs, par, failing, i + 1)
                  IN  [err |-> rest.err,
                       needs_merging |-> IF rest.err # "" THEN <<>>
                                         ELSE (IF r.val THEN <<Key(i)>> ELSE <<>>)
                                              \o rest.needs_merging,
                       queried |-> <<Key(i)>> \o rest.queried]

\* real_main lines 240-241: the loop over filter(is_dirty, prep_cfgs.keys()),
\* which queries and prints one repository at a time
RECURSIVE get_dirty_repos(_, _, _)
get_dirty_repos(gs, failing, i) ==
    IF i > Len(prep_cfgs) THEN [err |-> "", printed |-> <<>>, queried |-> <<>>]
    ELSE LET r == is_dirty(gs[Key(i)], Key(i) \in failing)
         IN  IF r.err # ""
             THEN [err |-> r.err, printed |-> <<>>, queried |-> <<Key(i)>>]
             ELSE LET rest == get_dirty_repos(gs, failing, i + 1)
                  IN  [err |-> rest.err,
                       printed |-> (IF r.val THEN <<Key(i)>> ELSE <<>>) \o rest.printed,
                       queried |-> <<Key(i)>> \o rest.queried]

\* real_main lines 267-273 from the i-th repository needing merge on
RECURSIVE mergeAll(_, _, _, _, _, _)
mergeAll(gs, par, needs, i, prep_cfg, outs) ==
    IF i > Len(needs) THEN [git |-> gs, par |-> par, err |-> "", log |-> <<>>]
    ELSE LET k == needs[i]
             r == merge_repo(gs[k], par, mergeArg(prep_cfg, k), outs[k])
             gs1 == [gs EXCEPT ![k] = r.g]
             e == [dir |-> k, branch_name |-> r.branch_name,
                   upstream_branch_name |-> r.upstream_branch_name,
                   err |-> r.err, merged |-> r.ret]
         IN  IF r.err # ""
             THEN [git |-> gs1, par |-> r.par, err |-> r.err, log |-> <<e>>]
             ELSE LET rest == mergeAll(gs1, r.par, needs, i + 1, prep_cfg, outs)
                  IN  [rest EXCEPT !.log = <<e>> \o @]

-----------------------------------------------------------------------------
(* SpecSync: the operations on the submodules of one resolved run: R's prep *)
(* file names sub, S's prep file names t, so the mapping holds T then S.    *)

EmptyRepo ==
    [upstream |-> "", heads |-> [b \in Branches |-> 0], track |-> [b \in Branches |-> NoRef],
     refs |-> [r \in RefNames |-> 0], active |-> "", wt |-> "clean"]

\* the repositories a submodule with record cfg can be in when the program
\* starts: remote-tracking refs only of existing remotes, the local upstream
\* branch only where its remote-tracking ref exists, HEAD on the local branch
\* when there is one.  wide: a submodule at any stage of its set-up, with a
\* clean work tree; not wide: one whose remotes are fetched and whose local
\* branch exists, possibly with local changes.
InitRepos(cfg, wide) ==
    LET b  == cfg.branch
        ub == cfg.upstream_branch
        all ==
         {[upstream |-> up,
          heads  |-> [n \in Branches |-> IF n = b THEN hb ELSE IF n = ub THEN hu ELSE 0],
          track  |-> [n \in Branches |->
                        IF n = b /\ hb # 0 /\ ro # 0 THEN <<"origin", b>>
                        ELSE IF n = ub /\ hu # 0 THEN <<"upstream", ub>>
                        ELSE NoRef],
          refs   |-> [r \in RefNames |->
                        IF r = <<"origin", b>> THEN ro
                        ELSE IF r = <<"upstream", ub>> THEN ru ELSE 0],
          active |-> ac,
          wt     |-> w] :
            up \in {"", cfg.upstream_url}, ro \in {0, OriginTip}, ru \in {0, 3, UpstreamTip},
            hb \in {0, 1, 2}, hu \in {0, 1, 3}, ac \in {"", b}, w \in {"clean", "dirty"}}
        ok(g) ==
            /\ g.refs[<<"upstream", ub>>] # 0 => g.upstream # ""
            /\ g.heads[ub] # 0 => g.refs[<<"upstream", ub>>] # 0
            /\ g.active = b <=> g.heads[b] # 0
            /\ wide => g.wt = "clean"
            /\ ~wide => /\ g.refs[<<"origin", b>>] # 0
                        /\ g.refs[<<"upstream", ub>>] = UpstreamTip
                        /\ g.heads[b] # 0
                        /\ g.heads[ub] # 1
    IN  {g \in all : ok(g)}

NoOp ==
    [op |-> "", dir |-> <<>>, err |-> "", ret |-> FALSE, phase |-> "",
     branch_name |-> "", upstream_branch_name |-> "",
     attempted |-> FALSE, raised |-> FALSE, unmerged |-> FALSE,
     before |-> EmptyRepo, wasConfigured |-> FALSE, commitsBefore |-> 0,
     queried |-> <<>>, printed |-> <<>>, failing |-> {}, log |-> <<>>]

InitSync ==
    /\ cwd = R
    /\ path = <<AbsP(R)>>
    /\ recursive = TRUE
    /\ prepFile = [d \in GitDirs |->
                     IF d = R THEN File({<<"sub">>})
                     ELSE IF d = S THEN File({<<"t">>}) ELSE NoFile]
    /\ tpc = "resolved"
    /\ prep_dirs = <<AbsP(S), AbsP(R)>>
    /\ prep_cfgs = get_prep_configs(cwd, prep_dirs).cfgs
    /\ terr = ""
    /\ \E gS \in InitRepos(CfgOf(S), TRUE), gT \in InitRepos(CfgOf(T), FALSE) :
          git = (S :> gS) @@ (T :> gT)
    /\ parents = BaseCommits
    /\ configured = {}
    /\ last = NoOp

\* config_module(prep_dir, prep_cfg) on the i-th record
ConfigModule(i) ==
    /\ LET r == config_module(git[Key(i)], Cfg(i))
       IN  /\ git' = [git EXCEPT ![Key(i)] = r.g]
           /\ configured' = IF r.err = "" THEN configured \cup {Key(i)} ELSE configured
           /\ last' = [NoOp EXCEPT !.op = "config_module", !.dir = Key(i), !.err = r.err,
                                   !.before = git[Key(i)],
                                   !.wasConfigured = Key(i) \in configured]
    /\ UNCHANGED <<treeVars, parents>>

\* fetch_repo(repo_dir) on the i-th record's repository
FetchRepo(i) ==
    /\ git' = [git EXCEPT ![Key(i)] = fetch_repo(git[Key(i)], Cfg(i))]
    /\ last' = [NoOp EXCEPT !.op = "fetch_repo", !.dir = Key(i), !.before = git[Key(i)]]
    /\ UNCHANGED <<treeVars, parents, configured>>

\* merge_repo(repo_dir, prep_cfg) with the i-th record
MergeRepo(i, o) ==
    /\ Len(parents) < MaxCommits
    /\ LET g == git[Key(i)]
           r == merge_repo(g, parents, Some(Cfg(i)), o)
           attempted == hasBranch(g, Cfg(i).branch) /\ hasBranch(g, Cfg(i).upstream_branch)
                        /\ o.co
       IN  /\ git' = [git EXCEPT ![Key(i)] = r.g]
           /\ parents' = r.par
           /\ last' = [NoOp EXCEPT !.op = "merge_repo", !.dir = Key(i), !.err = r.err,
                                   !.ret = r.ret, !.before = g,
                                   !.branch_name = r.branch_name,
                                   !.upstream_branch_name = r.upstream_branch_name,
                                   !.attempted = attempted,
                                   !.raised = attempted /\ o.raised,
                                   !.unmerged = attempted /\ o.unmerged,
                                   !.commitsBefore = Len(parents)]
    /\ UNCHANGED <<treeVars, configured>>

\* real_main with --need-merge: configure every record, then list
MainNeedMerge(failing) ==
    /\ LET c == configAll(git, 1)
           q == get_repos_needing_merge(c.git, parents, failing, 1)
       IN  /\ git' = c.git
           /\ configured' = configured \cup c.done
           /\ last' = IF c.err # ""
                      THEN [NoOp EXCEPT !.op = "need_merge", !.phase = "configure",
                                        !.err = c.err]
                      ELSE [NoOp EXCEPT !.op = "need_merge", !.phase = "query",
                                        !.err = q.err, !.queried = q.queried,
                                        !.printed = q.needs_merging, !.failing = failing]
    /\ UNCHANGED <<treeVars, parents>>

\* real_main with --dirty: configure every record, then list
MainDirty(failing) ==
    /\ LET c == configAll(git, 1)
           q == get_dirty_repos(c.git, failing, 1)
       IN  /\ git' = c.git
           /\ configured' = configured \cup c.done
           /\ last' = IF c.err # ""
                      THEN [NoOp EXCEPT !.op = "dirty", !.phase = "configure", !.err = c.err]
                      ELSE [NoOp EXCEPT !.op = "dirty", !.phase = "query",
                                        !.err = q.err, !.queried = q.queried,
                                        !.printed = q.printed, !.failing = failing]
    /\ UNCHANGED <<treeVars, parents>>

\* real_main with --merge-upstream: configure every record, find the
\* repositories needing merge, merge each
MainMergeUpstream(outs) ==
    /\ Len(parents) + Len(prep_cfgs) <= MaxCommits
    /\ LET c == configAll(git, 1)
           q == get_repos_needing_merge(c.git, parents, {}, 1)
           m == mergeAll(c.git, parents, q.needs_merging, 1, c.prep_cfg, outs)
       IN  IF c.err # ""
           THEN /\ git' = c.git
                /\ parents' = parents
                /\ configured' = configured \cup c.done
                /\ last' = [NoOp EXCEPT !.op = "merge_upstream", !.phase = "configure",
                                        !.err = c.err]
           ELSE /\ git' = m.git
                /\ parents' = m.par
                /\ configured' = configured \cup c.done
                /\ last' = [NoOp EXCEPT !.op = "merge_upstream", !.phase = "merge",
                                        !.err = m.err, !.queried = q.queried,
                                        !.printed = q.needs_merging, !.log = m.log]
    /\ UNCHANGED treeVars

NextSync ==
    \/ \E i \in DOMAIN prep_cfgs : ConfigModule(i)
    \/ \E i \in DOMAIN prep_cfgs : FetchRepo(i)
    \/ \E i \in DOMAIN prep_cfgs : \E o \in Outcomes(git[Key(i)]) : MergeRepo(i, o)

\* the functions of the module called one at a time
SpecSync == InitSync /\ [][NextSync]_vars

NextMain ==
    \/ \E i \in DOMAIN prep_cfgs : FetchRepo(i)
    \/ \E failing \in SUBSET Keys : MainNeedMerge(failing)
    \/ \E failing \in SUBSET Keys : MainDirty(failing)
    \/ \E outs \in [Keys -> [co : BOOLEAN, raised : BOOLEAN, unmerged : BOOLEAN]] :
          /\ \A k \in Keys : outs[k] \in Outcomes(git[k])
          /\ MainMergeUpstream(outs)

\* runs of real_main, with fetches in between
SpecMain == InitSync /\ [][NextMain]_vars

-----------------------------------------------------------------------------
(* Properties of the operations on a submodule (checked under SpecSync) *)

lastCfg == CfgOf(last.dir)

\* the merge attempt of the last merge_repo call ended with no error and no
\* unmerged blob
cleanAttempt == last.attempted /\ ~last.raised /\ ~last.unmerged

\* C1: merge_repo moves the local branch and creates a commit only when the
\* merge attempt completed with zero unmerged blobs; after a hard error or with
\* an unmerged blob left, the local branch tip is the commit it was before.
C1_CommitOnlyWhenClean ==
    (last.op = "merge_repo" /\ ~cleanAttempt)
    => /\ git[last.dir].heads[lastCfg.branch] = last.before.heads[lastCfg.branch]
       /\ Len(parents) = last.commitsBefore

\* a merge attempt of diverged branches that left unmerged blobs
C1_Witness ==
    /\ last.op = "merge_repo"
    /\ last.attempted
    /\ last.unmerged
    /\ ~last.raised
    /\ ~last.ret
    /\ last.before.heads[lastCfg.branch] = 2
    /\ last.before.heads[lastCfg.upstream_branch] = 3

\* C2: right after merge_repo returned MERGED, repo_needs_merge of the same
\* record is false: the upstream tip is an ancestor of the new local tip.
C2_MergedNeedsNoMerge ==
    (last.op = "merge_repo" /\ last.err = "" /\ last.ret)
    => LET r == repo_needs_merge(git[last.dir], parents, lastCfg.branch,
                                 lastCfg.upstream_branch, FALSE)
       IN  r.err = "" /\ ~r.val

\* a merge of diverged branches returned MERGED
C2_Witness ==
    /\ last.op = "merge_repo"
    /\ last.ret
    /\ repo_needs_merge(last.before, parents, lastCfg.branch,
                        lastCfg.upstream_branch, FALSE).val
    /\ ~is_ancestor(parents, last.before.heads[lastCfg.branch],
                    last.before.heads[lastCfg.upstream_branch])

\* the state C5 starts from: origin/<local_branch> exists, no remote upstream,
\* no local branch <upstream_branch>
freshSubmodule(g, cfg) ==
    /\ g.refs[<<"origin", cfg.branch>>] # 0
    /\ g.upstream = ""
    /\ g.heads[cfg.upstream_branch] = 0

\* C5: from such a submodule config_module completes without error and leaves
\* the remote upstream at upstream_url and both local branches, each tracking
\* its remote branch.
C5_ConfigureFreshSubmodule ==
    (last.op = "config_module" /\ freshSubmodule(last.before, lastCfg))
    => /\ last.err = ""
       /\ git[last.dir].upstream = lastCfg.upstream_url
       /\ git[last.dir].heads[lastCfg.branch] # 0
       /\ git[last.dir].track[lastCfg.branch] = <<"origin", lastCfg.branch>>
       /\ git[last.dir].heads[lastCfg.upstream_branch] # 0
       /\ git[last.dir].track[lastCfg.upstream_branch]
            = <<"upstream", lastCfg.upstream_branch>>

\* C6: a config_module call on a record on which an earlier call completed
\* raises nothing and leaves remotes, urls, branches and tracking as they were.
C6_ConfigureIdempotent ==
    (last.op = "config_module" /\ last.wasConfigured)
    => /\ last.err = ""
       /\ git[last.dir] = last.before

\* a second configure after the local branch moved on by a merge and the
\* remote-tracking ref moved on by a fetch
C6_Witness ==
    /\ last.op = "config_module"
    /\ last.wasConfigured
    /\ last.err = ""
    /\ git[last.dir].heads[lastCfg.branch] > Len(BaseCommits)
    /\ git[last.dir].refs[<<"upstream", lastCfg.upstream_branch>>]
         # git[last.dir].heads[lastCfg.upstream_branch]

\* C8: when the merge command reports a hard error, merge_repo returns
\* UNMERGED to its caller and does not raise.
C8_HardErrorReturnsUnmerged ==
    (last.op = "merge_repo" /\ last.raised)
    => /\ last.err = ""
       /\ ~last.ret

-----------------------------------------------------------------------------
(* Properties of the batch actions (checked under SpecMain) *)

\* C9: in the dirty and needs-merge batches a version-control failure on one
\* repository does not stop the batch: every repository of the mapping is
\* queried and the others are reported.
C9_QueryBatchContinues ==
    (last.op \in {"dirty", "need_merge"} /\ last.phase = "query")
    => \A k \in Keys :
          /\ \E i \in DOMAIN last.queried : last.queried[i] = k
          /\ (/\ k \notin last.failing
              /\ IF last.op = "dirty" THEN is_dirty(git[k], FALSE).val
                 ELSE repo_needs_merge(git[k], parents, CfgOf(k).branch,
                                       CfgOf(k).upstream_branch, FALSE).val)
             => \E i \in DOMAIN last.printed : last.printed[i] = k

\* C10: the batch merge merges every repository needing merge with its own
\* record: it checks out that record's branch and merges that record's
\* upstream_branch.
C10_MergeUsesOwnRecord ==
    (last.op = "merge_upstream" /\ last.phase = "merge")
    => /\ \A i \in DOMAIN last.printed :
            \E j \in DOMAIN last.log : last.log[j].dir = last.printed[i]
       /\ \A j \in DOMAIN last.log :
            /\ last.log[j].branch_name = CfgOf(last.log[j].dir).branch
            /\ last.log[j].upstream_branch_name = CfgOf(last.log[j].dir).upstream_branch

====
